---- MODULE Spec2Model ----
(***************************************************************************)
(* Model of the Bluetooth connection manager of react-native-label-printer *)
(* (LabelPrinterModule: connect, disconnect, sendRaw, closeSocket).        *)
(*                                                                         *)
(* Threads.  React Native dispatches the methods of a native module on one *)
(* native-modules thread, so the synchronous part of an invocation (the    *)
(* pre-checks of connect and sendRaw, the whole of disconnect) runs on a   *)
(* single caller thread: `caller` is the invocation that occupies it.      *)
(* connect and sendRaw then start a new Thread each; these workers run     *)
(* concurrently with each other and with the caller thread.  No lock       *)
(* guards mmSocket, so every read and every write of the field is a step   *)
(* of its own.                                                             *)
(*                                                                         *)
(* Sockets.  Every connect worker creates at most one BluetoothSocket, so  *)
(* a socket is named by the invocation that created it.  isConnected is    *)
(* true exactly for a socket whose connect() returned and that was not     *)
(* closed since; close() marks the socket closed also when it raises.      *)
(*                                                                         *)
(* Encoders.  The module also models the two label encoders, TSPLBuilder   *)
(* and CPCLBuilder.  They share no state with the connection manager: the  *)
(* encoder objects stay as constructed in Spec, and the connection manager *)
(* stays idle in EncSpec and LabelSpec, which drive one encoder object,    *)
(* and in ConcatSpec, which builds two labels with one TSPLBuilder each    *)
(* and makes the same calls on one more TSPLBuilder.                       *)
(***************************************************************************)
EXTENDS Integers, Sequences, FiniteSets, TLC

\* Number of invocations of connect / disconnect / sendRaw in one run.
MaxCalls == 3
\* At most this many of them are invocations of the same operation.
MaxPerOp == 2
\* Number of calls other than build() made on a TSPLBuilder in one run.
MaxTSPLCalls == 2
\* Number of calls other than build() made on a CPCLBuilder in one run.
MaxCPCLCalls == 3
\* Number of build() calls made in a row.
MaxBuilds == 2
\* Number of calls other than build() made in a run of the label script.
MaxLabelCalls == 5
\* Number of calls other than build() made on the encoders of two labels.
MaxConcatCalls == 3

Calls == 1..MaxCalls
\* The address arguments: two bonded devices and a malformed address, for
\* which getRemoteDevice raises IllegalArgumentException.
BadAddr == "bad"
Addrs == {"A", "B", BadAddr}
NoSocket == 0

Ops == {"none", "connect", "disconnect", "sendRaw"}
SockStates == {"none", "open", "failed", "closed"}
Outcomes == {"OK", "BLUETOOTH_UNAVAILABLE", "PERMISSION_DENIED",
             "CONNECTION_FAILED", "NOT_CONNECTED", "PRINT_FAILED", "ERROR"}
PCs == {"idle", "cs_read", "cs_close", "cs_null", "c_open", "c_assign",
        "s_read2", "w_os", "w_write", "done", "threw"}
\* Where closeSocket returns to: line 80 of connect, or the promise call
\* that follows it (lines 86, 89, 97, 123), named by the outcome it reports.
Rets == {"none", "c_open", "CONNECTION_FAILED", "ERROR", "OK", "PRINT_FAILED"}

VARIABLES
  bluetoothAdapter, \* TRUE iff the device has a Bluetooth adapter
  hasPermission,    \* what hasPermission() returns now
  mmSocket,         \* the owned socket reference (NoSocket = null)
  sockState,        \* state of the socket created by each invocation
  op,               \* operation of each invocation
  addr,             \* address argument of a connect invocation
  pc,               \* position of each invocation
  ret,              \* where closeSocket returns to
  tmp,              \* the reference closeSocket read from mmSocket
  os,               \* the socket whose outputStream a sendRaw worker holds
  settled,          \* the outcomes reported through the promise, in order
  wrote,            \* the socket a sendRaw wrote and flushed its bytes to
  closeRaised,      \* invocations in which a close() raised IOException
  ioFailed,         \* sendRaw invocations whose write raised IOException
                    \* and after whose teardown no connect installed a socket
  caller,           \* invocation running on the caller thread (0 = none)
  invokedAlone,     \* invocations made while no other invocation was running
  nextId            \* next unused invocation

\* The label encoders (src/src/TSPLBuilder.ts).  A run drives one encoder
\* object; the fields of the other class keep their constructed values.
VARIABLES
  dialect,          \* the class of the encoder object driven: "TSPL", "CPCL"
  commands,         \* TSPLBuilder.commands: the lines, each a sequence of
                    \* characters
  _commands,        \* CPCLBuilder._commands
  _height,          \* CPCLBuilder._height
  _quantity,        \* CPCLBuilder._quantity
  _offset,          \* CPCLBuilder._offset
  trace,            \* the calls made on the encoder other than build(), with
                    \* their arguments, in order
  call,             \* the last call made on the encoder, with its arguments
  returned,         \* what that call returned: "this" or "string"
  out,              \* the string the last call returned, if it was build()
  builds,           \* number of build() calls since the last other call
  lastSetup,        \* the arguments of the last setup() call and its number
                    \* among the calls, << >> if there was none
  calls,            \* number of calls made that were not build()
  limit,            \* no more than this many such calls are made
  labels,           \* the strings built from the encoders of the labels
                    \* finished, in order
  twin              \* the lines of one more TSPLBuilder, on which every call
                    \* is made as well: <<lines>>, or << >> if there is none

connVars == <<bluetoothAdapter, hasPermission, mmSocket, sockState, op, addr,
              pc, ret, tmp, os, settled, wrote, closeRaised, ioFailed,
              caller, invokedAlone, nextId>>

encVars == <<dialect, commands, _commands, _height, _quantity, _offset, trace,
             call, returned, out, builds, lastSetup, calls, limit, labels,
             twin>>

vars == <<connVars, encVars>>

envVars == <<bluetoothAdapter, hasPermission>>

TypeOK ==
  /\ bluetoothAdapter \in BOOLEAN
  /\ hasPermission \in BOOLEAN
  /\ mmSocket \in 0..MaxCalls
  /\ sockState \in [Calls -> SockStates]
  /\ op \in [Calls -> Ops]
  /\ addr \in [Calls -> Addrs]
  /\ pc \in [Calls -> PCs]
  /\ ret \in [Calls -> Rets]
  /\ tmp \in [Calls -> 0..MaxCalls]
  /\ os \in [Calls -> 0..MaxCalls]
  /\ \A i \in Calls : Len(settled[i]) <= 2
  /\ wrote \in [Calls -> 0..MaxCalls]
  /\ closeRaised \subseteq Calls
  /\ ioFailed \subseteq Calls
  /\ caller \in 0..MaxCalls
  /\ invokedAlone \subseteq Calls
  /\ nextId \in 1..(MaxCalls + 1)

\* No call was made yet: the argument record of `call` is empty.
NoCall == [name |-> "new", nums |-> << >>, content |-> << >>, opt |-> << >>]

\* The fields of a constructed TSPLBuilder (line 49) and of a constructed
\* CPCLBuilder (lines 297-300).
NewEncoders ==
  /\ commands = << >>
  /\ _commands = << >>
  /\ _height = 200
  /\ _quantity = 1
  /\ _offset = 0
  /\ trace = << >>
  /\ call = NoCall /\ returned = "none" /\ out = << >>
  /\ builds = 0 /\ lastSetup = << >> /\ calls = 0
  /\ labels = << >>

Init ==
  /\ bluetoothAdapter \in BOOLEAN
  /\ hasPermission \in BOOLEAN
  /\ mmSocket = NoSocket
  /\ sockState = [i \in Calls |-> "none"]
  /\ op = [i \in Calls |-> "none"]
  /\ addr = [i \in Calls |-> BadAddr]
  /\ pc = [i \in Calls |-> "idle"]
  /\ ret = [i \in Calls |-> "none"]
  /\ tmp = [i \in Calls |-> NoSocket]
  /\ os = [i \in Calls |-> NoSocket]
  /\ settled = [i \in Calls |-> << >>]
  /\ wrote = [i \in Calls |-> NoSocket]
  /\ closeRaised = {}
  /\ ioFailed = {}
  /\ caller = 0
  /\ invokedAlone = {}
  /\ nextId = 1
  /\ dialect = "none" /\ limit = 0 /\ twin = << >>
  /\ NewEncoders

\* An isConnected that still answers true for a closed socket.
isConnectedStale(s) == sockState[s] \in {"open", "closed"}

\* BluetoothSocket.isConnected.
isConnected(s) == sockState[s] = "open"

\* The caller thread is free and the run may still invoke operation o.
CanInvoke(o) ==
  /\ caller = 0
  /\ nextId <= MaxCalls
  /\ Cardinality({j \in Calls : op[j] = o}) < MaxPerOp

\* Operation o is invoked as invocation i.
Invoke(i, o) ==
  /\ op' = [op EXCEPT ![i] = o]
  /\ nextId' = nextId + 1
  /\ invokedAlone' = IF \A j \in Calls : pc[j] \in {"idle", "done", "threw"}
                       THEN invokedAlone \cup {i} ELSE invokedAlone

\* promise.resolve / promise.reject: one more outcome reported for i.
Settle(i, o) == settled' = [settled EXCEPT ![i] = Append(@, o)]

\* The promise call that ends an invocation.  It touches the promise only,
\* so it is taken in the same step as the statement before it; the locals
\* of the invocation die with it.
Finish(i, o) ==
  /\ Settle(i, o)
  /\ pc' = [pc EXCEPT ![i] = "done"]
  /\ ret' = [ret EXCEPT ![i] = "none"]
  /\ tmp' = [tmp EXCEPT ![i] = NoSocket]
  /\ os' = [os EXCEPT ![i] = NoSocket]

\* A finished sendRaw whose write failed and whose teardown is complete.
TornDown(i) == i \in ioFailed /\ pc[i] = "done"

(***************************************************************************)
(* closeSocket (lines 137-142): try { mmSocket?.close() } catch            *)
(* (IOException) {}; mmSocket = null.  Three steps: read the field, close  *)
(* the socket that was read, clear the field.                              *)
(***************************************************************************)
\* Entering closeSocket; k is where the caller of closeSocket continues.
CallCloseSocket(i, k) ==
  /\ pc' = [pc EXCEPT ![i] = "cs_read"]
  /\ ret' = [ret EXCEPT ![i] = k]

\* mmSocket?. : the field is read once; a null reference skips close().
CloseSocketRead(i) ==
  /\ pc[i] = "cs_read"
  /\ tmp' = [tmp EXCEPT ![i] = mmSocket]
  /\ pc' = [pc EXCEPT ![i] = IF mmSocket = NoSocket THEN "cs_null" ELSE "cs_close"]
  /\ UNCHANGED <<envVars, mmSocket, sockState, op, addr, ret, os, settled,
                 wrote, closeRaised, ioFailed, caller, nextId,
                 invokedAlone>>

\* The effect of close() on the socket s.
MarkClosed(s) == sockState' = [sockState EXCEPT ![s] = "closed"]

\* .close() on the reference that was read; an IOException is swallowed.
CloseSocketClose(i) ==
  /\ pc[i] = "cs_close"
  /\ MarkClosed(tmp[i])
  /\ \E raised \in BOOLEAN :
       closeRaised' = IF raised THEN closeRaised \cup {i} ELSE closeRaised
  /\ pc' = [pc EXCEPT ![i] = "cs_null"]
  /\ UNCHANGED <<envVars, mmSocket, op, addr, ret, tmp, os, settled, wrote,
                 ioFailed, caller, nextId,
                 invokedAlone>>

\* Back in the caller of closeSocket: line 80 of connect, or the promise
\* call of lines 86, 89 (connect), 97 (disconnect, which leaves the caller
\* thread) and 123 (sendRaw).
AfterCloseSocket(i) ==
  /\ IF ret[i] = "c_open"
       THEN /\ pc' = [pc EXCEPT ![i] = "c_open"]
            /\ UNCHANGED <<ret, tmp, os, settled>>
       ELSE Finish(i, ret[i])
  /\ caller' = IF caller = i THEN 0 ELSE caller

\* A closeSocket that closes the socket but keeps the reference.
CloseSocketKeep(i) ==
  /\ pc[i] = "cs_null"
  /\ UNCHANGED mmSocket
  /\ AfterCloseSocket(i)
  /\ UNCHANGED <<envVars, sockState, op, addr, wrote, closeRaised, ioFailed,
                 nextId, invokedAlone>>

\* mmSocket = null, then back to the caller of closeSocket.
CloseSocketNull(i) ==
  /\ pc[i] = "cs_null"
  /\ mmSocket' = NoSocket
  /\ AfterCloseSocket(i)
  /\ UNCHANGED <<envVars, sockState, op, addr, wrote, closeRaised, ioFailed,
                 nextId,
                 invokedAlone>>

(***************************************************************************)
(* connect(address, promise), lines 63-92.                                 *)
(***************************************************************************)
\* A connect worker that opens the new socket without closing the old one.
ConnectWorkerStartNoClose(i, a) ==
  IF a = BadAddr THEN CallCloseSocket(i, "ERROR")
                 ELSE /\ pc' = [pc EXCEPT ![i] = "c_open"]
                      /\ UNCHANGED ret

\* Lines 76-78 of the worker: getRemoteDevice(address) raises
\* IllegalArgumentException for a malformed address (handler of line 87),
\* otherwise closeSocket() runs before the socket is created.
ConnectWorkerStart(i, a) ==
  IF a = BadAddr THEN CallCloseSocket(i, "ERROR")
                 ELSE CallCloseSocket(i, "c_open")

\* The caller-thread part (lines 64-74) and the start of the worker.
Connect(a) ==
  /\ CanInvoke("connect")
  /\ LET i == nextId IN
       /\ Invoke(i, "connect")
       /\ addr' = [addr EXCEPT ![i] = a]
       /\ IF ~bluetoothAdapter
            THEN Finish(i, "BLUETOOTH_UNAVAILABLE")
            ELSE IF ~hasPermission
            THEN Finish(i, "PERMISSION_DENIED")
            ELSE /\ ConnectWorkerStart(i, a)
                 /\ UNCHANGED <<tmp, os, settled>>
  /\ UNCHANGED <<envVars, mmSocket, sockState, wrote, closeRaised, ioFailed,
                 caller>>

\* Lines 80-81: createRfcommSocketToServiceRecord and the blocking
\* socket.connect().  "ok": the socket is connected.  "create": creating the
\* socket raised IOException.  "io": connect() raised IOException; the
\* socket stays unconnected and nothing closes it.  "sec": connect() raised
\* SecurityException (the permission was withdrawn after the pre-check).
ConnectOpen(i) ==
  /\ pc[i] = "c_open"
  /\ \E r \in {"ok", "create", "io", "sec"} :
       /\ r = "sec" => ~hasPermission
       /\ sockState' = [sockState EXCEPT ![i] =
                          CASE r = "ok" -> "open"
                            [] r = "create" -> "none"
                            [] OTHER -> "failed"]
       /\ CASE r = "ok" -> pc' = [pc EXCEPT ![i] = "c_assign"] /\ UNCHANGED ret
            [] r = "sec" -> CallCloseSocket(i, "ERROR")
            [] OTHER -> CallCloseSocket(i, "CONNECTION_FAILED")
  /\ UNCHANGED <<envVars, mmSocket, op, addr, tmp, os, settled, wrote,
                 closeRaised, ioFailed, caller, nextId,
                 invokedAlone>>

\* A connect that reports success without installing its socket.
ConnectResolveOnly(i) ==
  /\ pc[i] = "c_assign"
  /\ UNCHANGED mmSocket
  /\ ioFailed' = {j \in ioFailed : ~TornDown(j)}
  /\ Finish(i, "OK")
  /\ UNCHANGED <<envVars, sockState, op, addr, wrote, closeRaised, caller,
                 nextId, invokedAlone>>

\* Lines 82-83: mmSocket = socket; promise.resolve(true).
ConnectAssign(i) ==
  /\ pc[i] = "c_assign"
  /\ mmSocket' = i
  /\ ioFailed' = {j \in ioFailed : ~TornDown(j)}
  /\ Finish(i, "OK")
  /\ UNCHANGED <<envVars, sockState, op, addr, wrote, closeRaised, caller,
                 nextId,
                 invokedAlone>>

(***************************************************************************)
(* disconnect(promise), lines 94-101: runs on the caller thread.           *)
(* closeSocket raises nothing, so promise.resolve(true) of line 97 always  *)
(* follows it and the handler of line 98 is never entered.                 *)
(***************************************************************************)
Disconnect ==
  /\ CanInvoke("disconnect")
  /\ LET i == nextId IN
       /\ Invoke(i, "disconnect")
       /\ caller' = i
       /\ CallCloseSocket(i, "OK")
  /\ UNCHANGED <<envVars, mmSocket, sockState, addr, tmp, os, settled, wrote,
                 closeRaised, ioFailed>>

(***************************************************************************)
(* sendRaw(data, promise), lines 103-128.                                  *)
(***************************************************************************)
\* Line 104, left operand: mmSocket == null (first read of the field).
SendRaw ==
  /\ CanInvoke("sendRaw")
  /\ LET i == nextId IN
       /\ Invoke(i, "sendRaw")
       /\ IF mmSocket = NoSocket
            THEN Finish(i, "NOT_CONNECTED") /\ UNCHANGED caller
            ELSE /\ pc' = [pc EXCEPT ![i] = "s_read2"]
                 /\ caller' = i
                 /\ UNCHANGED <<ret, tmp, os, settled>>
  /\ UNCHANGED <<envVars, mmSocket, sockState, addr, wrote, closeRaised,
                 ioFailed>>

\* A check of line 104 and lines 109-112 that tears the connection down
\* before it rejects for the missing permission.
SendRawCheckTeardown(i) ==
  /\ pc[i] = "s_read2"
  /\ caller' = 0
  /\ IF mmSocket = NoSocket
       THEN /\ pc' = [pc EXCEPT ![i] = "threw"]
            /\ UNCHANGED <<ret, tmp, os, settled>>
       ELSE IF ~isConnected(mmSocket)
       THEN Finish(i, "NOT_CONNECTED")
       ELSE IF ~hasPermission
       THEN /\ CallCloseSocket(i, "PERMISSION_DENIED")
            /\ UNCHANGED <<tmp, os, settled>>
       ELSE /\ pc' = [pc EXCEPT ![i] = "w_os"]
            /\ UNCHANGED <<ret, tmp, os, settled>>
  /\ UNCHANGED <<envVars, mmSocket, sockState, op, addr, wrote, closeRaised,
                 ioFailed, nextId,
                 invokedAlone>>

\* Line 104, right operand: !mmSocket!!.isConnected (second read of the
\* field; !! raises NullPointerException outside any try when the field was
\* cleared since the first read), then lines 109-114.
SendRawCheck(i) ==
  /\ pc[i] = "s_read2"
  /\ caller' = 0
  /\ IF mmSocket = NoSocket
       THEN /\ pc' = [pc EXCEPT ![i] = "threw"]
            /\ UNCHANGED <<ret, tmp, os, settled>>
       ELSE IF ~isConnected(mmSocket)
       THEN Finish(i, "NOT_CONNECTED")
       ELSE IF ~hasPermission
       THEN Finish(i, "PERMISSION_DENIED")
       ELSE /\ pc' = [pc EXCEPT ![i] = "w_os"]
            /\ UNCHANGED <<ret, tmp, os, settled>>
  /\ UNCHANGED <<envVars, mmSocket, sockState, op, addr, wrote, closeRaised,
                 ioFailed, nextId,
                 invokedAlone>>

\* Line 116: mmSocket!!.outputStream (third read of the field; a null
\* reference raises NullPointerException, caught at line 124 and reported
\* at line 125).
SendRawStream(i) ==
  /\ pc[i] = "w_os"
  /\ IF mmSocket = NoSocket
       THEN Finish(i, "ERROR")
       ELSE /\ os' = [os EXCEPT ![i] = mmSocket]
            /\ pc' = [pc EXCEPT ![i] = "w_write"]
            /\ UNCHANGED <<ret, tmp, settled>>
  /\ UNCHANGED <<envVars, mmSocket, sockState, op, addr, wrote, closeRaised,
                 ioFailed, caller, nextId,
                 invokedAlone>>

\* An IOException handler that rejects without closeSocket().
SendRawIOFailureNoClose(i) == Finish(i, "PRINT_FAILED")

\* Lines 121-123: the IOException handler of sendRaw calls closeSocket()
\* and then rejects with PRINT_FAILED.
SendRawIOFailure(i) ==
  /\ CallCloseSocket(i, "PRINT_FAILED")
  /\ UNCHANGED <<tmp, os, settled>>

\* Lines 118-119: write and flush on the stream of os[i].  A closed socket
\* raises IOException; an open one may also raise it (the link broke), or
\* SecurityException when the permission was withdrawn.
SendRawWrite(i) ==
  /\ pc[i] = "w_write"
  /\ \E r \in {"ok", "io", "sec"} :
       /\ r = "ok" => isConnected(os[i])
       /\ r = "sec" => ~hasPermission /\ isConnected(os[i])
       /\ CASE r = "ok" -> /\ wrote' = [wrote EXCEPT ![i] = os[i]]
                           /\ Finish(i, "OK")
                           /\ UNCHANGED ioFailed
            [] r = "io" -> /\ SendRawIOFailure(i)
                           /\ ioFailed' = ioFailed \cup {i}
                           /\ UNCHANGED wrote
            [] OTHER -> /\ Finish(i, "ERROR")
                        /\ UNCHANGED <<wrote, ioFailed>>
  /\ UNCHANGED <<envVars, mmSocket, sockState, op, addr, closeRaised, caller,
                 nextId,
                 invokedAlone>>

(***************************************************************************)
(* The environment: the user grants or withdraws the Bluetooth-connect     *)
(* permission that hasPermission() (lines 130-135) reports.                *)
(***************************************************************************)
PermissionChange ==
  /\ nextId <= MaxCalls
  /\ hasPermission' = ~hasPermission
  /\ UNCHANGED <<bluetoothAdapter, mmSocket, sockState, op, addr, pc, ret,
                 tmp, os, settled, wrote, closeRaised, ioFailed, caller,
                 nextId,
                 invokedAlone>>

Next ==
  \/ UNCHANGED encVars /\ (\E a \in Addrs : Connect(a))
  \/ UNCHANGED encVars /\ Disconnect
  \/ UNCHANGED encVars /\ SendRaw
  \/ UNCHANGED encVars /\ PermissionChange
  \/ UNCHANGED encVars /\ (\E i \in Calls : CloseSocketRead(i))
  \/ UNCHANGED encVars /\ (\E i \in Calls : CloseSocketClose(i))
  \/ UNCHANGED encVars /\ (\E i \in Calls : CloseSocketNull(i))
  \/ UNCHANGED encVars /\ (\E i \in Calls : ConnectOpen(i))
  \/ UNCHANGED encVars /\ (\E i \in Calls : ConnectAssign(i))
  \/ UNCHANGED encVars /\ (\E i \in Calls : SendRawCheck(i))
  \/ UNCHANGED encVars /\ (\E i \in Calls : SendRawStream(i))
  \/ UNCHANGED encVars /\ (\E i \in Calls : SendRawWrite(i))

Spec == Init /\ [][Next]_vars

(***************************************************************************)
(* The label encoders, src/src/TSPLBuilder.ts.  A string is the sequence   *)
(* of its characters; a number argument is an integer.  An argument that   *)
(* the caller may leave out is a sequence: << >> when it is left out       *)
(* (undefined), <<v>> when v is supplied.  An options object is a record   *)
(* of such fields; leaving out the object is leaving out all its fields    *)
(* (options?.f is undefined either way).                                   *)
(***************************************************************************)
Digits == <<"0", "1", "2", "3", "4", "5", "6", "7", "8", "9">>

RECURSIVE NatToString(_)
NatToString(n) ==
  IF n < 10 THEN <<Digits[n + 1]>>
  ELSE NatToString(n \div 10) \o <<Digits[(n % 10) + 1]>>

\* `${n}` in a template literal: the decimal digits of an integer.
NumberToString(n) == IF n < 0 THEN <<"-">> \o NatToString(-n) ELSE NatToString(n)

\* v || d for a number option: undefined and 0 are falsy.
OrNumber(v, d) == IF v = << >> \/ v[1] = 0 THEN d ELSE v[1]
\* v || d for a string option: undefined and "" are falsy.
OrString(v, d) == IF v = << >> \/ v[1] = << >> THEN d ELSE v[1]
\* A parameter declared with a default value (p = d): only undefined
\* takes the default.
Default(v, d) == IF v = << >> THEN d ELSE v[1]

\* A content that is passed on as given.
rawContent(content) == content

\* content.replace(/"/g, '\\"'): every double quote becomes backslash,
\* double quote.
RECURSIVE safeContent(_)
safeContent(content) ==
  IF content = << >> THEN << >>
  ELSE (IF Head(content) = "\"" THEN <<"\\", "\"">> ELSE <<Head(content)>>)
         \o safeContent(Tail(content))

\* Array.prototype.join(separator).
RECURSIVE join(_, _)
join(lines, separator) ==
  IF lines = << >> THEN << >>
  ELSE IF Len(lines) = 1 THEN lines[1]
  ELSE lines[1] \o separator \o join(Tail(lines), separator)

\* The bookkeeping of a call other than build().
Called(name, nums, content, opt) ==
  /\ calls < limit
  /\ calls' = calls + 1
  /\ call' = [name |-> name, nums |-> nums, content |-> content, opt |-> opt]
  /\ trace' = Append(trace, call')
  /\ out' = << >>
  /\ builds' = 0
  /\ UNCHANGED <<connVars, dialect, limit, labels>>

(***************************************************************************)
(* class TSPLBuilder, lines 48-259.                                        *)
(***************************************************************************)
\* A push that puts the line before the lines accumulated.
TSPLPushFront(line) ==
  /\ dialect = "TSPL"
  /\ commands' = <<line>> \o commands
  /\ twin' = [i \in DOMAIN twin |-> <<line>> \o twin[i]]
  /\ returned' = "this"
  /\ UNCHANGED <<_commands, _height, _quantity, _offset, lastSetup>>

\* this.commands.push(line); return this.  The call is made on the other
\* TSPLBuilder too, if there is one.
TSPLPush(line) ==
  /\ dialect = "TSPL"
  /\ commands' = Append(commands, line)
  /\ twin' = [i \in DOMAIN twin |-> Append(twin[i], line)]
  /\ returned' = "this"
  /\ UNCHANGED <<_commands, _height, _quantity, _offset, lastSetup>>

TSPLBuilder_size(widthMm, heightMm) ==
  /\ Called("size", <<widthMm, heightMm>>, << >>, << >>)
  /\ TSPLPush(<<"S", "I", "Z", "E", " ">> \o NumberToString(widthMm) \o <<" ", "m", "m", ",">>
                \o NumberToString(heightMm) \o <<" ", "m", "m">>)

TSPLBuilder_gap(gapMm, offsetMm) ==
  /\ Called("gap", <<gapMm>>, << >>, [offsetMm |-> offsetMm])
  /\ TSPLPush(<<"G", "A", "P", " ">> \o NumberToString(gapMm) \o <<" ", "m", "m", ",">>
                \o NumberToString(Default(offsetMm, 0)) \o <<" ", "m", "m">>)

TSPLBuilder_cls ==
  /\ Called("cls", << >>, << >>, << >>)
  /\ TSPLPush(<<"C", "L", "S">>)

\* A clear() that discards the lines accumulated, as that of CPCLBuilder.
TSPLBuilder_clearDiscard ==
  /\ Called("clear", << >>, << >>, << >>)
  /\ dialect = "TSPL"
  /\ commands' = <<<<"C", "L", "S">>>>
  /\ twin' = [i \in DOMAIN twin |-> <<<<"C", "L", "S">>>>]
  /\ returned' = "this"
  /\ UNCHANGED <<_commands, _height, _quantity, _offset, lastSetup>>

\* Line 95: return this.cls().
TSPLBuilder_clear ==
  /\ Called("clear", << >>, << >>, << >>)
  /\ TSPLPush(<<"C", "L", "S">>)

TSPLBuilder_codePage(value) ==
  /\ Called("codePage", << >>, value, << >>)
  /\ TSPLPush(<<"C", "O", "D", "E", "P", "A", "G", "E", " ">> \o value)

TSPLBuilder_direction(value) ==
  /\ Called("direction", <<value>>, << >>, << >>)
  /\ TSPLPush(<<"D", "I", "R", "E", "C", "T", "I", "O", "N", " ">> \o NumberToString(value))

TSPLBuilder_reference(x, y) ==
  /\ Called("reference", <<x, y>>, << >>, << >>)
  /\ TSPLPush(<<"R", "E", "F", "E", "R", "E", "N", "C", "E", " ">> \o NumberToString(x) \o <<",">>
                \o NumberToString(y))

TSPLBuilder_density(value) ==
  /\ Called("density", <<value>>, << >>, << >>)
  /\ TSPLPush(<<"D", "E", "N", "S", "I", "T", "Y", " ">> \o NumberToString(value))

TSPLBuilder_feed(mm) ==
  /\ Called("feed", <<mm>>, << >>, << >>)
  /\ TSPLPush(<<"F", "E", "E", "D", " ">> \o NumberToString(mm))

TSPLBuilder_speed(value) ==
  /\ Called("speed", <<value>>, << >>, << >>)
  /\ TSPLPush(<<"S", "P", "E", "E", "D", " ">> \o NumberToString(value))

TSPLBuilder_box(x, y, xEnd, yEnd, thickness) ==
  /\ Called("box", <<x, y, xEnd, yEnd>>, << >>, [thickness |-> thickness])
  /\ TSPLPush(<<"B", "O", "X", " ">> \o NumberToString(x) \o <<",">> \o NumberToString(y)
                \o <<",">> \o NumberToString(xEnd) \o <<",">>
                \o NumberToString(yEnd) \o <<",">>
                \o NumberToString(Default(thickness, 1)))

\* Lines 176-184 of text().
TSPLTextLine(x, y, content, options) ==
  LET font == OrString(options.font, <<"0">>)
      rot == OrNumber(options.rotation, 0)
      xMul == OrNumber(options.xMultiplication, 1)
      yMul == OrNumber(options.yMultiplication, 1)
  IN  <<"T", "E", "X", "T", " ">> \o NumberToString(x) \o <<",">> \o NumberToString(y)
        \o <<",", "\"">> \o font \o <<"\"", ",">> \o NumberToString(rot) \o <<",">>
        \o NumberToString(xMul) \o <<",">> \o NumberToString(yMul)
        \o <<",", "\"">> \o safeContent(content) \o <<"\"">>

TSPLBuilder_text(x, y, content, options) ==
  /\ Called("text", <<x, y>>, content, options)
  /\ TSPLPush(TSPLTextLine(x, y, content, options))

\* Lines 206-214 of barcode().
TSPLBarcodeLine(x, y, content, type, height, options) ==
  LET readable == IF options.humanReadable = <<TRUE>> THEN 1 ELSE 0
      rot == OrNumber(options.rotation, 0)
      narrow == OrNumber(options.narrow, 1)
      wide == OrNumber(options.wide, 1)
  IN  <<"B", "A", "R", "C", "O", "D", "E", " ">> \o NumberToString(x) \o <<",">> \o NumberToString(y)
        \o <<",", "\"">> \o Default(type, <<"1", "2", "8">>) \o <<"\"", ",">>
        \o NumberToString(Default(height, 50)) \o <<",">>
        \o NumberToString(readable) \o <<",">> \o NumberToString(rot)
        \o <<",">> \o NumberToString(narrow) \o <<",">> \o NumberToString(wide)
        \o <<",", "\"">> \o safeContent(content) \o <<"\"">>

TSPLBuilder_barcode(x, y, content, type, height, options) ==
  /\ Called("barcode", <<x, y>>, content,
            [type |-> type, height |-> height, options |-> options])
  /\ TSPLPush(TSPLBarcodeLine(x, y, content, type, height, options))

\* Lines 232-239 of qrCode().
TSPLQrCodeLine(x, y, content, options) ==
  LET ecc == OrString(options.eccLevel, <<"L">>)
      cellWidth == OrNumber(options.cellWidth, 5)
      mode == OrString(options.mode, <<"A">>)
      rot == OrNumber(options.rotation, 0)
  IN  <<"Q", "R", "C", "O", "D", "E", " ">> \o NumberToString(x) \o <<",">> \o NumberToString(y)
        \o <<",">> \o ecc \o <<",">> \o NumberToString(cellWidth) \o <<",">>
        \o mode \o <<",">> \o NumberToString(rot)
        \o <<",", "\"">> \o safeContent(content) \o <<"\"">>

TSPLBuilder_qrCode(x, y, content, options) ==
  /\ Called("qrCode", <<x, y>>, content, options)
  /\ TSPLPush(TSPLQrCodeLine(x, y, content, options))

TSPLBuilder_print(copies) ==
  /\ Called("print", << >>, << >>, [copies |-> copies])
  /\ TSPLPush(<<"P", "R", "I", "N", "T", " ">> \o NumberToString(Default(copies, 1)))

\* The bookkeeping of a build() call: it returns a string and assigns no
\* field.
Built(script) ==
  /\ builds < MaxBuilds
  /\ builds' = builds + 1
  /\ call' = [name |-> "build", nums |-> << >>, content |-> << >>,
              opt |-> << >>]
  /\ returned' = "string"
  /\ out' = script
  /\ UNCHANGED <<connVars, dialect, limit, calls, lastSetup, trace, labels,
                 twin>>

\* The lines joined, with no terminator after the last line.
TSPLScriptJoinOnly(lines) == join(lines, <<"\n">>)

\* Line 257: the string build() makes of the lines.
TSPLScript(lines) == join(lines, <<"\n">>) \o <<"\n">>

\* A build() that adds no terminator after the last line.
TSPLBuilder_buildJoinOnly ==
  /\ dialect = "TSPL"
  /\ Built(join(commands, <<"\n">>))
  /\ UNCHANGED <<commands, _commands, _height, _quantity, _offset>>

\* Line 257: return this.commands.join('\n') + '\n'.
TSPLBuilder_build ==
  /\ dialect = "TSPL"
  /\ Built(TSPLScript(commands))
  /\ UNCHANGED <<commands, _commands, _height, _quantity, _offset>>

(***************************************************************************)
(* class CPCLBuilder, lines 296-473.                                       *)
(***************************************************************************)
\* this._commands.push(line), for each of the lines in turn; return this.
CPCLPush(lines) ==
  /\ dialect = "CPCL"
  /\ _commands' = _commands \o lines
  /\ returned' = "this"
  /\ UNCHANGED <<commands, twin>>

\* The session line, lines 314 and 351-353.
CPCLSetupLine(offset, height, quantity) ==
  <<"!", " ">> \o NumberToString(offset) \o <<" ", "2", "0", "0", " ", "2", "0", "0", " ">>
    \o NumberToString(height) \o <<" ">> \o NumberToString(quantity)

\* A setup() that pushes the session line and remembers the parameters of
\* the first setup() call only.
CPCLBuilder_setupOnce(height, offset, quantity) ==
  /\ Called("setup", <<height>>, << >>,
            [offset |-> offset, quantity |-> quantity])
  /\ _height' = IF lastSetup = << >> THEN height ELSE _height
  /\ _offset' = IF lastSetup = << >> THEN Default(offset, 0) ELSE _offset
  /\ _quantity' = IF lastSetup = << >> THEN Default(quantity, 1)
                  ELSE _quantity
  /\ lastSetup' = <<height, offset, quantity, calls + 1>>
  /\ CPCLPush(<<CPCLSetupLine(Default(offset, 0), height,
                              Default(quantity, 1))>>)

CPCLBuilder_setup(height, offset, quantity) ==
  /\ Called("setup", <<height>>, << >>,
            [offset |-> offset, quantity |-> quantity])
  /\ _height' = height
  /\ _offset' = Default(offset, 0)
  /\ _quantity' = Default(quantity, 1)
  /\ lastSetup' = <<height, offset, quantity, calls + 1>>
  /\ CPCLPush(<<CPCLSetupLine(Default(offset, 0), height,
                              Default(quantity, 1))>>)

CPCLBuilder_pageWidth(width) ==
  /\ Called("pageWidth", <<width>>, << >>, << >>)
  /\ CPCLPush(<<<<"P", "A", "G", "E", "-", "W", "I", "D", "T", "H", " ">> \o NumberToString(width)>>)
  /\ UNCHANGED <<_height, _quantity, _offset, lastSetup>>

CPCLBuilder_encoding(value) ==
  /\ Called("encoding", << >>, value, << >>)
  /\ CPCLPush(<<<<"C", "O", "U", "N", "T", "R", "Y", " ">> \o value>>)
  /\ UNCHANGED <<_height, _quantity, _offset, lastSetup>>

\* A clear() that keeps the lines and pushes the session line.
CPCLBuilder_clearAppend ==
  /\ Called("clear", << >>, << >>, << >>)
  /\ _height > 0
  /\ CPCLPush(<<CPCLSetupLine(_offset, _height, _quantity)>>)
  /\ UNCHANGED <<_height, _quantity, _offset, lastSetup>>

\* A clear() that pushes the session line whenever _height is not 0.
CPCLBuilder_clearNonzero ==
  /\ Called("clear", << >>, << >>, << >>)
  /\ dialect = "CPCL"
  /\ _commands' = IF _height # 0
                    THEN <<CPCLSetupLine(_offset, _height, _quantity)>>
                    ELSE << >>
  /\ returned' = "this"
  /\ UNCHANGED <<commands, twin, _height, _quantity, _offset, lastSetup>>

\* Lines 348-356: the array is replaced by an empty one, and the session
\* line is pushed from the remembered fields when _height > 0.
CPCLBuilder_clear ==
  /\ Called("clear", << >>, << >>, << >>)
  /\ dialect = "CPCL"
  /\ _commands' = IF _height > 0
                    THEN <<CPCLSetupLine(_offset, _height, _quantity)>>
                    ELSE << >>
  /\ returned' = "this"
  /\ UNCHANGED <<commands, twin, _height, _quantity, _offset, lastSetup>>

\* Lines 374-378 of text(): the content is not escaped.
CPCLTextLine(x, y, content, options) ==
  LET font == OrString(options.font, <<"7">>)
      size == OrNumber(options.size, 0)
  IN  <<"T", "E", "X", "T", " ">> \o font \o <<" ">> \o NumberToString(size) \o <<" ">>
        \o NumberToString(x) \o <<" ">> \o NumberToString(y) \o <<" ">>
        \o content

CPCLBuilder_text(x, y, content, options) ==
  /\ Called("text", <<x, y>>, content, options)
  /\ CPCLPush(<<CPCLTextLine(x, y, content, options)>>)
  /\ UNCHANGED <<_height, _quantity, _offset, lastSetup>>

\* Lines 401-406 of barcode().
CPCLBarcodeLine(x, y, content, type, height, options) ==
  LET w == OrNumber(options.width, 1)
      r == OrNumber(options.ratio, 1)
  IN  <<"B", "A", "R", "C", "O", "D", "E", " ">> \o Default(type, <<"1", "2", "8">>) \o <<" ">> \o NumberToString(w)
        \o <<" ">> \o NumberToString(r) \o <<" ">>
        \o NumberToString(Default(height, 50)) \o <<" ">>
        \o NumberToString(x) \o <<" ">> \o NumberToString(y) \o <<" ">>
        \o content

CPCLBuilder_barcode(x, y, content, type, height, options) ==
  /\ Called("barcode", <<x, y>>, content,
            [type |-> type, height |-> height, options |-> options])
  /\ CPCLPush(<<CPCLBarcodeLine(x, y, content, type, height, options)>>)
  /\ UNCHANGED <<_height, _quantity, _offset, lastSetup>>

\* Lines 425-429 of qrCode(): three pushes.
CPCLQrCodeLines(x, y, content, options) ==
  LET size == OrNumber(options.cellWidth, 6)
  IN  << <<"B", "A", "R", "C", "O", "D", "E", " ", "Q", "R", " ">> \o NumberToString(x) \o <<" ">> \o NumberToString(y)
           \o <<" ", "M", " ", "2", " ", "U", " ">> \o NumberToString(size),
         <<"M", "A", ",">> \o content,
         <<"E", "N", "D", "Q", "R">> >>

CPCLBuilder_qrCode(x, y, content, options) ==
  /\ Called("qrCode", <<x, y>>, content, options)
  /\ CPCLPush(CPCLQrCodeLines(x, y, content, options))
  /\ UNCHANGED <<_height, _quantity, _offset, lastSetup>>

CPCLBuilder_box(x, y, xEnd, yEnd, thickness) ==
  /\ Called("box", <<x, y, xEnd, yEnd>>, << >>, [thickness |-> thickness])
  /\ CPCLPush(<<<<"B", "O", "X", " ">> \o NumberToString(x) \o <<" ">> \o NumberToString(y)
                  \o <<" ">> \o NumberToString(xEnd) \o <<" ">>
                  \o NumberToString(yEnd) \o <<" ">>
                  \o NumberToString(Default(thickness, 1))>>)
  /\ UNCHANGED <<_height, _quantity, _offset, lastSetup>>

CPCLBuilder_print ==
  /\ Called("print", << >>, << >>, << >>)
  /\ CPCLPush(<<<<"P", "R", "I", "N", "T">>>>)
  /\ UNCHANGED <<_height, _quantity, _offset, lastSetup>>

CPCLBuilder_feed(dots) ==
  /\ Called("feed", <<dots>>, << >>, << >>)
  /\ CPCLPush(<<<<"P", "O", "S", "T", "F", "E", "E", "D", " ">> \o NumberToString(dots)>>)
  /\ UNCHANGED <<_height, _quantity, _offset, lastSetup>>

\* A build() that hands over the lines and empties the array.
CPCLBuilder_buildAndFlush ==
  /\ dialect = "CPCL"
  /\ Built(join(_commands, <<"\r", "\n">>) \o <<"\r", "\n">>)
  /\ _commands' = << >>
  /\ UNCHANGED <<commands, _height, _quantity, _offset>>

\* Line 471: return this._commands.join('\r\n') + '\r\n'.
CPCLBuilder_build ==
  /\ dialect = "CPCL"
  /\ Built(join(_commands, <<"\r", "\n">>) \o <<"\r", "\n">>)
  /\ UNCHANGED <<commands, _commands, _height, _quantity, _offset>>

(***************************************************************************)
(* The encoders under arbitrary calls.  The arguments are drawn from small *)
(* sets that hold, for every parameter, the values the code treats         *)
(* differently: left out, 0 or "" (falsy), and an ordinary value; content  *)
(* with and without double quotes, backslashes and line terminators.       *)
(***************************************************************************)
\* A parameter that is left out or takes a value of S.
Optional(S) == {<< >>} \cup {<<v>> : v \in S}

Hi == <<"H", "i">>
Quoted == <<"\"", "a", "\\", "\"">>
TwoLines == <<"a", "\r", "\n", "b">>
Contents == {Hi, Quoted, TwoLines}

\* How a call fills its optional parameters: all left out, all falsy
\* (0, "", false), all ordinary.
Kinds == {"leftOut", "falsy", "ordinary"}
Pick(k, falsy, ordinary) ==
  CASE k = "leftOut" -> << >>
    [] k = "falsy" -> <<falsy>>
    [] OTHER -> <<ordinary>>

TSPLTextOptions(k) ==
  [font |-> Pick(k, << >>, <<"2">>), rotation |-> Pick(k, 0, 90),
   xMultiplication |-> Pick(k, 0, 2), yMultiplication |-> Pick(k, 0, 3)]
TSPLBarcodeOptions(k) ==
  [humanReadable |-> Pick(k, FALSE, TRUE), rotation |-> Pick(k, 0, 90),
   narrow |-> Pick(k, 0, 2), wide |-> Pick(k, 0, 4)]
TSPLQrCodeOptions(k) ==
  [eccLevel |-> Pick(k, << >>, <<"M">>), cellWidth |-> Pick(k, 0, 8),
   mode |-> Pick(k, << >>, <<"M">>), rotation |-> Pick(k, 0, 90)]
CPCLTextOptions(k) ==
  [font |-> Pick(k, << >>, <<"4">>), size |-> Pick(k, 0, 2)]
CPCLBarcodeOptions(k) == [width |-> Pick(k, 0, 2), ratio |-> Pick(k, 0, 3)]
CPCLQrCodeOptions(k) == [cellWidth |-> Pick(k, 0, 8)]
\* The type and height parameters of barcode().
BarcodeType(k) == Pick(k, << >>, <<"3", "9">>)
BarcodeHeight(k) == Pick(k, 0, 80)

\* Content and optional parameters of a text, barcode or qrCode call:
\* every content with the parameters left out, and one content with each
\* other kind.
Samples == {s \in Contents \X Kinds : s[1] = Hi \/ s[2] = "leftOut"}
\* Fewer of them: every content and every kind once.
FewSamples ==
  {<<Hi, "leftOut">>, <<Quoted, "falsy">>, <<TwoLines, "ordinary">>}
\* The arguments of setup(): every sign of the height, and the other two
\* parameters left out or supplied.
SetupSamples ==
  ({200, 0, -5} \X {<<<< >>, << >>>>})
    \cup {<<200, <<<<0>>, <<1>>>>>>, <<120, <<<<8>>, <<2>>>>>>}

\* The connection manager is idle while the encoders are driven.
Idle ==
  /\ bluetoothAdapter = TRUE
  /\ hasPermission = TRUE
  /\ mmSocket = NoSocket
  /\ sockState = [i \in Calls |-> "none"]
  /\ op = [i \in Calls |-> "none"]
  /\ addr = [i \in Calls |-> BadAddr]
  /\ pc = [i \in Calls |-> "idle"]
  /\ ret = [i \in Calls |-> "none"]
  /\ tmp = [i \in Calls |-> NoSocket]
  /\ os = [i \in Calls |-> NoSocket]
  /\ settled = [i \in Calls |-> << >>]
  /\ wrote = [i \in Calls |-> NoSocket]
  /\ closeRaised = {}
  /\ ioFailed = {}
  /\ caller = 0
  /\ invokedAlone = {}
  /\ nextId = 1

EncInit ==
  /\ Idle
  /\ dialect \in {"TSPL", "CPCL"}
  /\ limit = IF dialect = "TSPL" THEN MaxTSPLCalls ELSE MaxCPCLCalls
  /\ twin = << >>
  /\ NewEncoders

EncNext ==
  \/ \E w \in {0, 50} : TSPLBuilder_size(w, 30)
  \/ \E o \in Optional({0, 3}) : TSPLBuilder_gap(2, o)
  \/ TSPLBuilder_cls
  \/ TSPLBuilder_clear
  \/ \E v \in {<<"8", "5", "0">>, <<"U", "T", "F", "-", "8">>} :
       TSPLBuilder_codePage(v)
  \/ \E v \in {0, 1} : TSPLBuilder_direction(v)
  \/ TSPLBuilder_reference(0, 20)
  \/ TSPLBuilder_density(8)
  \/ TSPLBuilder_feed(12)
  \/ TSPLBuilder_speed(4)
  \/ \E t \in Optional({0, 3}) : TSPLBuilder_box(10, 20, 30, 40, t)
  \/ \E s \in Samples :
       TSPLBuilder_text(10, 20, s[1], TSPLTextOptions(s[2]))
  \/ \E s \in Samples :
       TSPLBuilder_barcode(10, 20, s[1], BarcodeType(s[2]),
                           BarcodeHeight(s[2]), TSPLBarcodeOptions(s[2]))
  \/ \E s \in Samples :
       TSPLBuilder_qrCode(10, 20, s[1], TSPLQrCodeOptions(s[2]))
  \/ \E c \in Optional({0, 2}) : TSPLBuilder_print(c)
  \/ TSPLBuilder_build
  \/ \E a \in SetupSamples : CPCLBuilder_setup(a[1], a[2][1], a[2][2])
  \/ CPCLBuilder_pageWidth(400)
  \/ CPCLBuilder_encoding(<<"U", "T", "F", "-", "8">>)
  \/ CPCLBuilder_clear
  \/ \E s \in Samples :
       CPCLBuilder_text(10, 20, s[1], CPCLTextOptions(s[2]))
  \/ \E s \in FewSamples :
       CPCLBuilder_barcode(10, 20, s[1], BarcodeType(s[2]),
                           BarcodeHeight(s[2]), CPCLBarcodeOptions(s[2]))
  \/ \E s \in FewSamples :
       CPCLBuilder_qrCode(10, 20, s[1], CPCLQrCodeOptions(s[2]))
  \/ \E t \in Optional({3}) : CPCLBuilder_box(10, 20, 30, 40, t)
  \/ CPCLBuilder_print
  \/ CPCLBuilder_feed(12)
  \/ CPCLBuilder_build

EncSpec == EncInit /\ [][EncNext]_vars

(***************************************************************************)
(* The TSPL encoder under the calls of a label script: size(50, 30),       *)
(* gap(2), clear(), text(10, 10, "Hi"), print(1) and build(), in any       *)
(* order.                                                                  *)
(***************************************************************************)
LabelInit ==
  /\ Idle
  /\ dialect = "TSPL"
  /\ limit = MaxLabelCalls
  /\ twin = << >>
  /\ NewEncoders

LabelNext ==
  \/ TSPLBuilder_size(50, 30)
  \/ TSPLBuilder_gap(2, << >>)
  \/ TSPLBuilder_clear
  \/ TSPLBuilder_text(10, 10, Hi, TSPLTextOptions("leftOut"))
  \/ TSPLBuilder_print(<<1>>)
  \/ TSPLBuilder_build

LabelSpec == LabelInit /\ [][LabelNext]_vars

(***************************************************************************)
(* Two labels built with one TSPLBuilder each, as handlePrint and the      *)
(* README build them, and one more TSPLBuilder on which the calls of both  *)
(* are made in the same order.                                             *)
(***************************************************************************)
\* README lines 129-130, part_000 lines 150-178: the string build()
\* returned is kept as the next label, and the encoder of the label after
\* it is constructed.
NewLabel ==
  /\ dialect = "TSPL" /\ call.name = "build" /\ Len(labels) < 2
  /\ labels' = Append(labels, out)
  /\ commands' = << >>
  /\ call' = NoCall /\ returned' = "none" /\ out' = << >> /\ builds' = 0
  /\ UNCHANGED <<connVars, dialect, limit, calls, trace, lastSetup, twin,
                 _commands, _height, _quantity, _offset>>

\* build() of the other TSPLBuilder, once both labels are kept.
TwinBuild ==
  /\ dialect = "TSPL" /\ Len(labels) = 2 /\ twin # << >>
  /\ Built(TSPLScript(twin[1]))
  /\ UNCHANGED <<commands, _commands, _height, _quantity, _offset>>

ConcatInit ==
  /\ Idle
  /\ dialect = "TSPL"
  /\ limit = MaxConcatCalls
  /\ twin = << << >> >>
  /\ NewEncoders

ConcatNext ==
  \/ Len(labels) < 2 /\ TSPLBuilder_size(50, 30)
  \/ Len(labels) < 2 /\ TSPLBuilder_clear
  \/ Len(labels) < 2 /\ \E c \in {Hi, Quoted} :
       TSPLBuilder_text(10, 10, c, TSPLTextOptions("leftOut"))
  \/ Len(labels) < 2 /\ TSPLBuilder_print(<<1>>)
  \/ Len(labels) < 2 /\ TSPLBuilder_build
  \/ NewLabel
  \/ TwinBuild

ConcatSpec == ConcatInit /\ [][ConcatNext]_vars

(***************************************************************************)
(* Vocabulary of the properties.                                           *)
(***************************************************************************)
Running(i) == pc[i] \notin {"idle", "done", "threw"}
\* No other invocation has run since i was invoked.
Solo(i) == i \in invokedAlone /\ \A j \in Calls : j > i => op[j] = "none"

\* Invocation i takes a step.
Steps(i) == pc'[i] # pc[i]
\* This step is the invocation of operation o as invocation i.
Invoked(i, o) == pc[i] = "idle" /\ op'[i] = o
\* This step reports outcome o for invocation i.
Reports(i, o) == settled'[i] = Append(settled[i], o)

\* i holds a reference it read from mmSocket and has yet to finish the
\* close, clear, check or write that the read was made for.
InSocketSection(i) == pc[i] \in {"cs_close", "cs_null", "s_read2", "w_write"}

\* Connect c has closed a socket it found installed and has not yet
\* installed its own.
Replacing(c) ==
  /\ op[c] = "connect"
  /\ tmp[c] # NoSocket
  /\ \/ pc[c] = "cs_null" /\ ret[c] = "c_open"
     \/ pc[c] \in {"c_open", "c_assign"}

\* This step is the open attempt (socket.connect()) of connect i.
OpenAttempt(i) == sockState[i] = "none" /\ sockState'[i] \in {"open", "failed"}

(***************************************************************************)
(* C1.  In every reachable state at most one socket created by the         *)
(* connection manager is open.                                             *)
(***************************************************************************)
C1_AtMostOneLiveSocket ==
  Cardinality({s \in Calls : sockState[s] = "open"}) <= 1

(***************************************************************************)
(* C2.  No two invocations are inside a section that reads, closes or      *)
(* assigns the owned socket reference at the same time.                    *)
(***************************************************************************)
C2_MutualExclusion ==
  \A i, j \in Calls : i # j => ~(InSocketSection(i) /\ InSocketSection(j))

(***************************************************************************)
(* C3.  While a connect replaces an open socket, a sendRaw that reads the  *)
(* owned reference finds an open socket there (the old or the new one),    *)
(* never an empty slot or a closed socket; and no sendRaw writes to a      *)
(* socket that was closed.                                                 *)
(***************************************************************************)
C3_AtomicReplace ==
  [][\A i \in Calls :
       /\ ( /\ \/ Invoked(i, "sendRaw")
               \/ pc[i] \in {"s_read2", "w_os"} /\ Steps(i)
            /\ \E c \in Calls : Replacing(c) )
          => (mmSocket # NoSocket /\ isConnected(mmSocket))
       /\ (pc[i] = "w_write" /\ Steps(i)) => sockState[os[i]] # "closed"]_vars

(***************************************************************************)
(* C4.  A connect makes its open attempt only after its closeSocket: the   *)
(* socket that closeSocket found installed is closed by then, whatever its *)
(* address, and when no other invocation ran meanwhile no socket is owned  *)
(* at the open attempt.                                                    *)
(***************************************************************************)
C4_CloseBeforeOpen ==
  [][\A i \in Calls : OpenAttempt(i) =>
       /\ pc[i] = "c_open"
       /\ tmp[i] # NoSocket => sockState[tmp[i]] = "closed"
       /\ Solo(i) => mmSocket = NoSocket]_vars

\* A connect to the address of the installed socket closed that socket and
\* opened a fresh one.
C4_Witness ==
  \E i \in Calls :
    /\ op[i] = "connect" /\ pc[i] = "c_assign" /\ sockState[i] = "open"
    /\ tmp[i] # NoSocket /\ addr[tmp[i]] = addr[i]
    /\ sockState[tmp[i]] = "closed"
    /\ Solo(i)
(***************************************************************************)
(* C5.  A sendRaw whose write or flush raised IOException closes the       *)
(* socket it finds installed, clears the owned reference and rejects with  *)
(* PRINT_FAILED; from then on, until a connect installs a socket, the      *)
(* owned reference is empty and every sendRaw is rejected NOT_CONNECTED.   *)
(***************************************************************************)
C5_FailedSendDisconnects ==
  [][/\ \A i \in Calls :
          (pc[i] = "cs_null" /\ ret[i] = "PRINT_FAILED" /\ Steps(i)) =>
             /\ Reports(i, "PRINT_FAILED")
             /\ mmSocket' = NoSocket
             /\ tmp[i] # NoSocket => sockState[tmp[i]] = "closed"
     /\ (\E i \in Calls : TornDown(i)') => mmSocket' = NoSocket
     /\ \A n \in Calls :
          (Invoked(n, "sendRaw") /\ \E i \in Calls : TornDown(i)) =>
             Reports(n, "NOT_CONNECTED")]_vars

\* A write failed, the socket was torn down, and the next sendRaw was
\* rejected with NOT_CONNECTED.
C5_Witness ==
  \E i, n \in Calls :
    /\ i < n
    /\ op[i] = "sendRaw" /\ TornDown(i) /\ settled[i] = <<"PRINT_FAILED">>
    /\ op[n] = "sendRaw" /\ settled[n] = <<"NOT_CONNECTED">>
    /\ \E s \in Calls : s < i /\ sockState[s] = "closed"

C7_FailedOpenClosesAttempt ==
  [][\A i \in Calls :
       (op[i] = "connect" /\ Reports(i, "CONNECTION_FAILED")) =>
          /\ sockState'[i] \in {"none", "closed"}
          /\ mmSocket' = NoSocket]_vars

(***************************************************************************)
(* C8.  disconnect never fails: it never raises and reports exactly one    *)
(* outcome, success; when it reports, the socket it found installed is     *)
(* closed and the owned reference is empty; a disconnect that runs on its  *)
(* own with no socket owned changes nothing.                               *)
(***************************************************************************)
C8_DisconnectNeverFails ==
  [][\A d \in Calls : op[d] = "disconnect" =>
       /\ pc'[d] # "threw"
       /\ settled'[d] # settled[d] =>
            /\ settled[d] = << >> /\ Reports(d, "OK")
            /\ mmSocket' = NoSocket
            /\ tmp[d] # NoSocket => sockState'[tmp[d]] = "closed"
       /\ (Steps(d) /\ Solo(d) /\ mmSocket = NoSocket) =>
            UNCHANGED <<mmSocket, sockState>>]_vars

\* Two disconnects in a row after a connect: the first closed the socket
\* (its close raised), the second found nothing; both succeeded.
C8_Witness ==
  \E c, d, e \in Calls :
    /\ c < d /\ d < e
    /\ op[c] = "connect" /\ sockState[c] = "closed"
    /\ op[d] = "disconnect" /\ settled[d] = <<"OK">> /\ d \in closeRaised
    /\ op[e] = "disconnect" /\ settled[e] = <<"OK">> /\ e \in invokedAlone
    /\ mmSocket = NoSocket

(***************************************************************************)
(* C9.  When a connect reports success, the owned reference is the socket  *)
(* this invocation opened to its address and that socket is open; in a run *)
(* without overlapping invocations it is the only open socket.             *)
(***************************************************************************)
C9_SuccessInstallsOwnSocket ==
  [][\A i \in Calls : (op'[i] = "connect" /\ Reports(i, "OK")) =>
       /\ settled[i] = << >>
       /\ addr'[i] # BadAddr
       /\ mmSocket' = i
       /\ sockState'[i] = "open"
       /\ (\A j \in Calls : op[j] # "none" => j \in invokedAlone) =>
            \A s \in Calls \ {i} : sockState'[s] # "open"]_vars

\* A connect to B succeeded after a connect to A: the socket to A is closed
\* and the socket to B is the owned one.
C9_Witness ==
  \E s, i \in Calls :
    /\ s < i
    /\ op[s] = "connect" /\ addr[s] = "A" /\ sockState[s] = "closed"
    /\ op[i] = "connect" /\ addr[i] = "B" /\ settled[i] = <<"OK">>
    /\ mmSocket = i /\ sockState[i] = "open"

(***************************************************************************)
(* C10.  Every invocation that has ended reported exactly one outcome, and *)
(* no invocation ever reports more than one.                               *)
(***************************************************************************)
C10_ExactlyOneOutcome ==
  \A i \in Calls :
    /\ Len(settled[i]) <= 1
    /\ pc[i] \in {"done", "threw"} => Len(settled[i]) = 1

(***************************************************************************)
(* C11.  When the socket I/O of connect (line 81) or of sendRaw (lines     *)
(* 118-119) raises SecurityException, the invocation reports               *)
(* PERMISSION_DENIED.                                                      *)
(***************************************************************************)
\* Connect i, whose socket.connect() raised SecurityException, is returning
\* from the closeSocket() of its handler: of the two failures that leave the
\* socket unconnected only this one is bound for the generic handler.
ConnectSecurityReturn(i) ==
  /\ op[i] = "connect" /\ sockState[i] = "failed" /\ ret[i] = "ERROR"
  /\ pc[i] # "done" /\ pc'[i] = "done"
\* The write of sendRaw i raised SecurityException: the step ends the
\* invocation without a write and without a closeSocket().
SendRawSecurityRaised(i) ==
  pc[i] = "w_write" /\ pc'[i] = "done" /\ wrote'[i] = NoSocket

C11_SecurityIsPermissionDenied ==
  [][\A i \in Calls :
       ConnectSecurityReturn(i) \/ SendRawSecurityRaised(i)
         => Reports(i, "PERMISSION_DENIED")]_vars

(***************************************************************************)
(* Vocabulary of the encoder properties.                                   *)
(***************************************************************************)
\* The accumulated lines and the line terminator of the encoder driven.
Lines == IF dialect = "TSPL" THEN commands ELSE _commands
Terminator == IF dialect = "TSPL" THEN <<"\n">> ELSE <<"\r", "\n">>
\* The fields of the two encoder classes.
Fields == <<commands, _commands, _height, _quantity, _offset>>
\* This step is a call of build(); this step is a call of primitive name.
BuildStep == builds' = builds + 1
CallStep(name) == calls' = calls + 1 /\ call'.name = name

(***************************************************************************)
(* C12.  build() assigns no field of the encoder (neither the lines nor    *)
(* the setup parameters a CPCL encoder remembers), and a build() that      *)
(* follows a build() with no other call between them returns the same      *)
(* string.                                                                 *)
(***************************************************************************)
C12_BuildIsPure ==
  [][BuildStep =>
       /\ UNCHANGED Fields
       /\ builds > 0 => out' = out]_vars

\* A CPCL encoder with a remembered setup and several lines was built
\* twice in a row.
C12_Witness ==
  /\ dialect = "CPCL" /\ builds = 2 /\ returned = "string"
  /\ lastSetup # << >> /\ _height # 200
  /\ Len(_commands) >= 2

\* The last line accumulated.
LastLine == Lines[Len(Lines)]
\* The number of double quotes among the first i characters of s.
QuotesIn(s, i) == Cardinality({j \in 1..i : s[j] = "\""})
\* e is s with a backslash put before every double quote and nothing else
\* changed: character i of s sits in e behind one backslash for every
\* double quote up to it.
IsEscaped(e, s) ==
  /\ Len(e) = Len(s) + QuotesIn(s, Len(s))
  /\ \A i \in 1..Len(s) :
       /\ e[i + QuotesIn(s, i)] = s[i]
       /\ s[i] = "\"" => e[i + QuotesIn(s, i) - 1] = "\\"
\* The last n characters of line but for the closing one.
QuotedTail(line, n) == SubSeq(line, Len(line) - n, Len(line) - 1)

(***************************************************************************)
(* C13.  The line a TSPL text, barcode or qrCode call appends ends with    *)
(* the content between double quotes, every double quote of the content    *)
(* preceded by a backslash and every other character as given; the line a  *)
(* CPCL text call appends ends with the content as given.                  *)
(***************************************************************************)
C13_ContentEscaping ==
  /\ dialect = "TSPL" /\ call.name \in {"text", "barcode", "qrCode"} =>
       LET n == Len(call.content) + QuotesIn(call.content, Len(call.content))
       IN  /\ Len(LastLine) >= n + 3
           /\ LastLine[Len(LastLine)] = "\""
           /\ SubSeq(LastLine, Len(LastLine) - n - 2, Len(LastLine) - n - 1)
                = <<",", "\"">>
           /\ IsEscaped(QuotedTail(LastLine, n), call.content)
  /\ dialect = "CPCL" /\ call.name = "text" =>
       LET n == Len(call.content)
       IN  /\ Len(LastLine) >= n + 1
           /\ SubSeq(LastLine, Len(LastLine) - n, Len(LastLine))
                = <<" ">> \o call.content

\* A TSPL barcode call was given content with double quotes and a
\* backslash.
C13_Witness ==
  /\ dialect = "TSPL" /\ call.name = "barcode" /\ call.content = Quoted
  /\ Len(commands) = 2

\* The last call was clear() on the CPCL encoder.
Cleared == dialect = "CPCL" /\ call.name = "clear"
\* The line `! {offset} 200 200 {height} {quantity}` of the arguments of the
\* last setup() call, a parameter left out taking its default.
LastSetupLine ==
  CPCLSetupLine(Default(lastSetup[2], 0), lastSetup[1],
                Default(lastSetup[3], 1))

(***************************************************************************)
(* C14 as claimed.  After a setup() with a height other than 0 and any     *)
(* calls other than setup(), clear() leaves the line of that setup() as    *)
(* the only line; after setup(200, 0, 1) it leaves `! 0 200 200 200 1`.    *)
(***************************************************************************)
C14_ClearAfterNonzeroSetup ==
  Cleared /\ lastSetup # << >> =>
    /\ lastSetup[1] # 0 => _commands = <<LastSetupLine>>
    /\ <<lastSetup[1], lastSetup[2], lastSetup[3]>> = <<200, <<0>>, <<1>>>>
         => _commands = <<<<"!", " ", "0", " ", "2", "0", "0", " ", "2", "0", "0", " ", "2", "0", "0", " ", "1">>>>

(***************************************************************************)
(* C14 as the code has it.  After a setup() with a height above 0 and any  *)
(* calls other than setup(), clear() leaves the line of that setup() as    *)
(* the only line; after setup(200, 0, 1) it leaves `! 0 200 200 200 1`.    *)
(***************************************************************************)
C14_ClearAfterPositiveSetup ==
  Cleared /\ lastSetup # << >> =>
    /\ lastSetup[1] > 0 => _commands = <<LastSetupLine>>
    /\ <<lastSetup[1], lastSetup[2], lastSetup[3]>> = <<200, <<0>>, <<1>>>>
         => _commands = <<<<"!", " ", "0", " ", "2", "0", "0", " ", "2", "0", "0", " ", "2", "0", "0", " ", "1">>>>

\* setup(120, 8, 2) was the first call, a call other than setup() followed
\* it, and the third call was clear().
C14_Witness ==
  /\ Cleared /\ calls = 3
  /\ lastSetup = <<120, <<8>>, <<2>>, 1>>
  /\ _commands = <<<<"!", " ", "8", " ", "2", "0", "0", " ", "2", "0", "0", " ", "1", "2", "0", " ", "2">>>>

(***************************************************************************)
(* C15 as claimed.  clear() leaves the line of the last setup() as the     *)
(* only line when there was a setup() and its height was not 0 (negative   *)
(* heights included), and the empty sequence otherwise: when setup() was   *)
(* never called and when the height was 0.                                 *)
(***************************************************************************)
C15_ClearReemitsIffNonzeroSetup ==
  Cleared =>
    _commands = IF lastSetup # << >> /\ lastSetup[1] # 0
                  THEN <<LastSetupLine>>
                  ELSE << >>

(***************************************************************************)
(* C15 as the code has it.  clear() leaves one session line when the       *)
(* remembered height is above 0 and the empty sequence otherwise.  On an   *)
(* encoder on which setup() was never called the remembered parameters     *)
(* are those of construction (height 200, offset 0, quantity 1), so        *)
(* clear() leaves `! 0 200 200 200 1`; after a setup() it leaves the line  *)
(* of that setup() when its height is above 0, and nothing when the        *)
(* height is 0 or negative.                                                *)
(***************************************************************************)
C15_ClearReemitsIffPositiveHeight ==
  Cleared =>
    _commands = IF lastSetup = << >> THEN <<<<"!", " ", "0", " ", "2", "0", "0", " ", "2", "0", "0", " ", "2", "0", "0", " ", "1">>>>
                ELSE IF lastSetup[1] > 0 THEN <<LastSetupLine>>
                ELSE << >>

\* clear() was called on an encoder that had one line and on which setup()
\* was never called.
C15_Witness ==
  /\ Cleared /\ calls = 2 /\ lastSetup = << >>
  /\ _commands = <<<<"!", " ", "0", " ", "2", "0", "0", " ", "2", "0", "0", " ", "2", "0", "0", " ", "1">>>>

(***************************************************************************)
(* C16.  A CPCL qrCode(x, y, content, options) call appends three lines    *)
(* at the end of the accumulated lines and changes no other line:          *)
(* `BARCODE QR {x} {y} M 2 U {cellWidth}`, then `MA,{content}`, then       *)
(* `ENDQR`, {cellWidth} being the cell width supplied, or 6 when it is     *)
(* left out.                                                               *)
(***************************************************************************)
C16_QrCodeThreeLines ==
  [][dialect = "CPCL" /\ CallStep("qrCode") =>
       LET n == Len(_commands)
           x == call'.nums[1]
           y == call'.nums[2]
           cellWidth == Default(call'.opt.cellWidth, 6)
       IN  /\ Len(_commands') = n + 3
           /\ SubSeq(_commands', 1, n) = _commands
           /\ _commands'[n + 1] =
                <<"B", "A", "R", "C", "O", "D", "E", " ", "Q", "R", " ">>
                  \o NumberToString(x) \o <<" ">> \o NumberToString(y)
                  \o <<" ", "M", " ", "2", " ", "U", " ">>
                  \o NumberToString(cellWidth)
           /\ _commands'[n + 2] = <<"M", "A", ",">> \o call'.content
           /\ _commands'[n + 3] = <<"E", "N", "D", "Q", "R">>]_vars

\* The record of a call, as `trace` keeps it.
CallOf(name, nums, content, opt) ==
  [name |-> name, nums |-> nums, content |-> content, opt |-> opt]
\* The calls size(50, 30), gap(2), clear(), text(10, 10, "Hi"), print(1).
LabelScript ==
  << CallOf("size", <<50, 30>>, << >>, << >>),
     CallOf("gap", <<2>>, << >>, [offsetMm |-> << >>]),
     CallOf("clear", << >>, << >>, << >>),
     CallOf("text", <<10, 10>>, Hi, TSPLTextOptions("leftOut")),
     CallOf("print", << >>, << >>, [copies |-> <<1>>]) >>

(***************************************************************************)
(* C17.  build() after size(50, 30), gap(2), clear(), text(10, 10, "Hi"),  *)
(* print(1) on a new TSPLBuilder returns the five lines                    *)
(* `SIZE 50 mm,30 mm`, `GAP 2 mm,0 mm`, `CLS`, `TEXT 10,10,"0",0,1,1,"Hi"` *)
(* and `PRINT 1`, each followed by a line feed.                            *)
(***************************************************************************)
C17_LabelScript ==
  dialect = "TSPL" /\ trace = LabelScript /\ call.name = "build" =>
    out = <<"S", "I", "Z", "E", " ", "5", "0", " ", "m", "m", ",", "3", "0", " ", "m", "m", "\n", "G", "A", "P", " ", "2", " ", "m", "m", ",", "0", " ", "m", "m", "\n", "C", "L", "S", "\n", "T", "E", "X", "T", " ", "1", "0", ",", "1", "0", ",", "\"", "0", "\"", ",", "0", ",", "1", ",", "1", ",", "\"", "H", "i", "\"", "\n", "P", "R", "I", "N", "T", " ", "1", "\n">>

\* The five calls were made in this order and build() was called.
C17_Witness ==
  /\ dialect = "TSPL" /\ trace = LabelScript
  /\ call.name = "build" /\ returned = "string" /\ Len(out) > 0

\* The number of places of string s at which string t occurs.
Occurrences(s, t) ==
  Cardinality({i \in 1..(Len(s) - Len(t) + 1) :
                 SubSeq(s, i, i + Len(t) - 1) = t})
\* The number of characters that the first k lines take in a script in
\* which term follows every line.
RECURSIVE LengthOf(_, _, _)
LengthOf(lines, k, term) ==
  IF k = 0 THEN 0
  ELSE LengthOf(lines, k - 1, term) + Len(lines[k]) + Len(term)
\* script is the lines in their order, the terminator after every one of
\* them and nothing else; the script of no lines is the terminator alone.
IsScriptOf(script, lines, term) ==
  IF lines = << >> THEN script = term
  ELSE /\ Len(script) = LengthOf(lines, Len(lines), term)
       /\ \A k \in 1..Len(lines) :
            LET from == LengthOf(lines, k - 1, term)
            IN  /\ SubSeq(script, from + 1, from + Len(lines[k])) = lines[k]
                /\ SubSeq(script, from + Len(lines[k]) + 1,
                          from + Len(lines[k]) + Len(term)) = term
\* The last call was build().
WasBuilt == call.name = "build"

(***************************************************************************)
(* C18 as claimed.  build() returns the accumulated lines in the order     *)
(* appended, joined by the terminator of the dialect (LF for TSPL, CR LF   *)
(* for CPCL) and followed by one more terminator, and the string holds as  *)
(* many terminators as there are accumulated lines.                        *)
(***************************************************************************)
C18_OneTerminatorPerLine ==
  WasBuilt =>
    /\ IsScriptOf(out, Lines, Terminator)
    /\ Occurrences(out, Terminator) = Len(Lines)

(***************************************************************************)
(* C18 as the code has it.  build() returns the accumulated lines in the   *)
(* order appended, joined by the terminator of the dialect and followed    *)
(* by one more terminator.  When there is at least one line and no line    *)
(* holds the terminator itself, the string holds as many terminators as    *)
(* there are lines; the string built from no lines is one terminator.      *)
(***************************************************************************)
C18_JoinedAndTerminated ==
  WasBuilt =>
    /\ IsScriptOf(out, Lines, Terminator)
    /\ Lines = << >> => Occurrences(out, Terminator) = 1
    /\ /\ Lines # << >>
       /\ \A k \in 1..Len(Lines) : Occurrences(Lines[k], Terminator) = 0
       => Occurrences(out, Terminator) = Len(Lines)

\* A CPCL encoder that holds four lines, none with a CR LF in it, was
\* built.
C18_Witness ==
  /\ dialect = "CPCL" /\ WasBuilt /\ Len(_commands) = 4
  /\ \A k \in 1..4 : Occurrences(_commands[k], Terminator) = 0
  /\ Occurrences(out, Terminator) = 4

(***************************************************************************)
(* C19.  Every call of a TSPLBuilder primitive (size, gap, cls, clear,     *)
(* codePage, direction, reference, density, feed, speed, box, text,        *)
(* barcode, qrCode, print) appends one line after the lines accumulated,   *)
(* leaves those lines as they were and returns the encoder itself; the     *)
(* line that cls() and clear() append is `CLS`.                            *)
(***************************************************************************)
C19_OneLinePerPrimitive ==
  [][dialect = "TSPL" /\ calls' = calls + 1 =>
       /\ Len(commands') = Len(commands) + 1
       /\ SubSeq(commands', 1, Len(commands)) = commands
       /\ returned' = "this"
       /\ call'.name \in {"cls", "clear"} =>
            commands'[Len(commands')] = <<"C", "L", "S">>]_vars

\* clear() was called on a TSPL encoder that held one line, another than
\* `CLS`.
C19_Witness ==
  /\ dialect = "TSPL" /\ call.name = "clear" /\ returned = "this"
  /\ Len(commands) = 2
  /\ commands[1] # <<"C", "L", "S">> /\ commands[2] = <<"C", "L", "S">>

\* The value of an optional parameter as claimed: the value supplied, or
\* the default d when the parameter is left out.
Given(v, d) == IF v = << >> THEN d ELSE v[1]
\* NumberToString of such a value.
GivenNumber(v, d) == NumberToString(Given(v, d))

(***************************************************************************)
(* C20.  The line a text, barcode or qrCode call appends holds, for every  *)
(* optional parameter, the value supplied (0 and the empty string          *)
(* included) and the default only where the parameter was left out.        *)
(***************************************************************************)
C20_SuppliedValuesSerialized ==
  LET x == NumberToString(call.nums[1])
      y == NumberToString(call.nums[2])
      o == call.opt
  IN
  /\ dialect = "TSPL" /\ call.name = "text" =>
       LastLine = <<"T", "E", "X", "T", " ">> \o x \o <<",">> \o y \o <<",", "\"">>
                    \o Given(o.font, <<"0">>) \o <<"\"", ",">>
                    \o GivenNumber(o.rotation, 0) \o <<",">>
                    \o GivenNumber(o.xMultiplication, 1) \o <<",">>
                    \o GivenNumber(o.yMultiplication, 1) \o <<",", "\"">>
                    \o safeContent(call.content) \o <<"\"">>
  /\ dialect = "TSPL" /\ call.name = "barcode" =>
       LastLine = <<"B", "A", "R", "C", "O", "D", "E", " ">> \o x \o <<",">> \o y \o <<",", "\"">>
                    \o Given(o.type, <<"1", "2", "8">>) \o <<"\"", ",">>
                    \o GivenNumber(o.height, 50) \o <<",">>
                    \o (IF Given(o.options.humanReadable, FALSE)
                          THEN <<"1">> ELSE <<"0">>) \o <<",">>
                    \o GivenNumber(o.options.rotation, 0) \o <<",">>
                    \o GivenNumber(o.options.narrow, 1) \o <<",">>
                    \o GivenNumber(o.options.wide, 1) \o <<",", "\"">>
                    \o safeContent(call.content) \o <<"\"">>
  /\ dialect = "TSPL" /\ call.name = "qrCode" =>
       LastLine = <<"Q", "R", "C", "O", "D", "E", " ">> \o x \o <<",">> \o y \o <<",">>
                    \o Given(o.eccLevel, <<"L">>) \o <<",">>
                    \o GivenNumber(o.cellWidth, 5) \o <<",">>
                    \o Given(o.mode, <<"A">>) \o <<",">>
                    \o GivenNumber(o.rotation, 0) \o <<",", "\"">>
                    \o safeContent(call.content) \o <<"\"">>
  /\ dialect = "CPCL" /\ call.name = "text" =>
       LastLine = <<"T", "E", "X", "T", " ">> \o Given(o.font, <<"7">>) \o <<" ">>
                    \o GivenNumber(o.size, 0) \o <<" ">> \o x \o <<" ">> \o y
                    \o <<" ">> \o call.content
  /\ dialect = "CPCL" /\ call.name = "barcode" =>
       LastLine = <<"B", "A", "R", "C", "O", "D", "E", " ">> \o Given(o.type, <<"1", "2", "8">>) \o <<" ">>
                    \o GivenNumber(o.options.width, 1) \o <<" ">>
                    \o GivenNumber(o.options.ratio, 1) \o <<" ">>
                    \o GivenNumber(o.height, 50) \o <<" ">> \o x \o <<" ">> \o y
                    \o <<" ">> \o call.content
  /\ dialect = "CPCL" /\ call.name = "qrCode" =>
       Lines[Len(Lines) - 2] = <<"B", "A", "R", "C", "O", "D", "E", " ", "Q", "R", " ">> \o x \o <<" ">> \o y
                                 \o <<" ", "M", " ", "2", " ", "U", " ">> \o GivenNumber(o.cellWidth, 6)

(***************************************************************************)
(* C21.  When a sendRaw reports an error (NOT_CONNECTED,                   *)
(* PERMISSION_DENIED, PRINT_FAILED or ERROR), the owned reference is empty *)
(* or refers to a socket that is not connected.                            *)
(***************************************************************************)
C21_FailedSendLeavesNoConnection ==
  [][\A n \in Calls :
       ( /\ op'[n] = "sendRaw"
         /\ \E o \in {"NOT_CONNECTED", "PERMISSION_DENIED", "PRINT_FAILED",
                      "ERROR"} : Reports(n, o) )
       => mmSocket' = NoSocket \/ sockState'[mmSocket'] # "open"]_vars

\* This step is a call of setup() that appends the line
\* `! {offset} 200 200 {height} {quantity}` after the accumulated lines and
\* assigns the three parameters to the fields, a parameter left out taking
\* its default.
SetupRecords ==
  LET height == call'.nums[1]
      offset == Given(call'.opt.offset, 0)
      quantity == Given(call'.opt.quantity, 1)
  IN  /\ _commands' =
           Append(_commands,
                  <<"!", " ">> \o NumberToString(offset) \o <<" ", "2", "0", "0", " ", "2", "0", "0", " ">>
                    \o NumberToString(height) \o <<" ">>
                    \o NumberToString(quantity))
      /\ <<_height', _offset', _quantity'>> = <<height, offset, quantity>>
\* The remembered parameters.
Remembered == <<_height, _offset, _quantity>>

(***************************************************************************)
(* C22 as claimed.  A CPCL setup(height, offset, quantity) call appends    *)
(* `! {offset} 200 200 {height} {quantity}` and records the three          *)
(* parameters; a clear() after one or more setup() calls leaves the line   *)
(* of the most recent of them, whatever its height; and a call other than  *)
(* setup() leaves the remembered parameters as they were.                  *)
(***************************************************************************)
C22_ClearReemitsLastSetup ==
  [][dialect = "CPCL" /\ calls' = calls + 1 =>
       /\ call'.name = "setup" => SetupRecords
       /\ call'.name # "setup" => UNCHANGED Remembered
       /\ call'.name = "clear" /\ lastSetup # << >> =>
            _commands' = <<LastSetupLine>>]_vars

(***************************************************************************)
(* C22 as the code has it.  A CPCL setup(height, offset, quantity) call    *)
(* appends `! {offset} 200 200 {height} {quantity}` and records the three  *)
(* parameters; a clear() after one or more setup() calls leaves the line   *)
(* of the most recent of them when its height is above 0 and no line       *)
(* otherwise; and a call other than setup() leaves the remembered          *)
(* parameters as they were.                                                *)
(***************************************************************************)
C22_ClearReemitsLastPositiveSetup ==
  [][dialect = "CPCL" /\ calls' = calls + 1 =>
       /\ call'.name = "setup" => SetupRecords
       /\ call'.name # "setup" => UNCHANGED Remembered
       /\ call'.name = "clear" /\ lastSetup # << >> =>
            _commands' = IF lastSetup[1] > 0 THEN <<LastSetupLine>>
                         ELSE << >>]_vars

\* setup() was called twice with different parameters, the second time as
\* setup(120, 8, 2), and clear() was called after them.
C22_Witness ==
  /\ Cleared /\ calls = 3
  /\ trace[1].name = "setup" /\ trace[1].nums # <<120>>
  /\ lastSetup = <<120, <<8>>, <<2>>, 2>>
  /\ Remembered = <<120, 8, 2>>
  /\ _commands = <<<<"!", " ", "8", " ", "2", "0", "0", " ", "2", "0", "0", " ", "1", "2", "0", " ", "2">>>>

\* Both labels are kept and the other TSPLBuilder, which was given the
\* calls of the first label and then those of the second, was built.
BothBuilt == dialect = "TSPL" /\ Len(labels) = 2 /\ WasBuilt
\* The payload `label1 + label2`.
Payload == labels[1] \o labels[2]
\* Label k was built from an encoder on which no call was made: it is a
\* lone line feed.
NoCalls(k) == labels[k] = <<"\n">>

(***************************************************************************)
(* C23 as claimed.  The string built after call sequence A followed by the *)
(* string built by another new encoder after call sequence B is the string *)
(* one new encoder builds after the calls of A and then those of B, also   *)
(* when A or B is empty.                                                   *)
(***************************************************************************)
C23_ConcatenationIsBuild ==
  BothBuilt => Payload = out

(***************************************************************************)
(* C23 as the code has it.  When A and B hold at least one call each, the  *)
(* string built after A followed by the string built after B is the string *)
(* one new encoder builds after the calls of A and then those of B.  An    *)
(* encoder given no call builds a lone line feed, so when A is empty the   *)
(* two strings in a row are a line feed followed by the string of the one  *)
(* encoder, and when B is empty they are that string followed by a line    *)
(* feed.                                                                   *)
(***************************************************************************)
C23_ConcatenationOfNonEmpty ==
  BothBuilt =>
    /\ Len(twin[1]) = Len(trace)
    /\ ~NoCalls(1) /\ ~NoCalls(2) => Payload = out
    /\ NoCalls(1) => Payload = <<"\n">> \o out
    /\ NoCalls(2) => Payload = out \o <<"\n">>

\* The first label was built after one call, the second after two, one of
\* them with double quotes in its content, and the other encoder holds the
\* three lines.
C23_Witness ==
  /\ BothBuilt /\ Len(trace) = 3 /\ Len(twin[1]) = 3
  /\ labels[1] = <<"S", "I", "Z", "E", " ", "5", "0", " ", "m", "m", ",", "3", "0", " ", "m", "m", "\n">>
  /\ trace[2].content = Quoted
  /\ ~NoCalls(2)
  /\ out = Payload

\* Disconnect d has completed and no connect invoked after it has reported
\* success.  Invocations are numbered in the order they are made, and the
\* caller thread is held by a disconnect until it completes, so the
\* invocations made after the completion of d are those numbered above d.
DisconnectedSince(d) ==
  /\ op[d] = "disconnect" /\ pc[d] = "done"
  /\ \A c \in Calls :
       c > d /\ op[c] = "connect" => settled[c] # <<"OK">>

(***************************************************************************)
(* C24.  From the completion of a disconnect until a connect invoked after *)
(* it succeeds, the owned reference is empty and every sendRaw invoked is  *)
(* rejected with NOT_CONNECTED; a connect invoked before the disconnect    *)
(* never installs its socket after the disconnect has completed.           *)
(***************************************************************************)
C24_DisconnectedUntilLaterConnect ==
  [][\A d \in Calls : DisconnectedSince(d) =>
       /\ mmSocket = NoSocket
       /\ \A n \in Calls :
            Invoked(n, "sendRaw") => Reports(n, "NOT_CONNECTED")
       /\ \A c \in Calls : c < d => mmSocket' # c]_vars

\* Invocation i is in the closeSocket() of a failure handler: that of a
\* sendRaw whose write raised IOException (line 122) or that of a connect
\* whose open attempt failed (lines 85, 88).
FailureCleanup(i) ==
  \/ op[i] = "sendRaw" /\ ret[i] = "PRINT_FAILED"
  \/ /\ op[i] = "connect" /\ ret[i] \in {"CONNECTION_FAILED", "ERROR"}
     /\ sockState[i] = "failed"
\* The socket invocation i itself used: the one a sendRaw took the stream
\* of, the one a connect created.
Used(i) == IF op[i] = "sendRaw" THEN os[i] ELSE i
\* Socket s was installed by a connect other than i that was invoked after
\* i.
InstalledLater(s, i) == s # NoSocket /\ s # Used(i) /\ s > i

(***************************************************************************)
(* C25.  The closeSocket() of a failure handler (a sendRaw whose write     *)
(* failed, a connect whose open attempt failed) never closes, and never    *)
(* clears from the owned reference, a socket that a different connect,     *)
(* invoked later, has installed.                                           *)
(***************************************************************************)
C25_CleanupSparesLaterSocket ==
  [][\A i \in Calls : FailureCleanup(i) /\ Steps(i) =>
       /\ pc[i] = "cs_close" => ~InstalledLater(tmp[i], i)
       /\ pc[i] = "cs_null" => ~InstalledLater(mmSocket, i)]_vars

\* This step rejects invocation n with an outcome of its pre-checks.
Rejected(n) ==
  \/ /\ op'[n] = "connect"
     /\ Reports(n, "BLUETOOTH_UNAVAILABLE") \/ Reports(n, "PERMISSION_DENIED")
  \/ /\ op'[n] = "sendRaw"
     /\ Reports(n, "NOT_CONNECTED") \/ Reports(n, "PERMISSION_DENIED")
\* Neither the owned reference nor any socket changes, nothing is written
\* and no close() is called.
NoSocketEffect == UNCHANGED <<mmSocket, sockState, wrote, closeRaised>>

(***************************************************************************)
(* C26.  A connect invoked without a Bluetooth adapter is rejected with    *)
(* BLUETOOTH_UNAVAILABLE, and one invoked with an adapter but without the  *)
(* permission with PERMISSION_DENIED.  A step that rejects a connect with  *)
(* one of these, or a sendRaw with NOT_CONNECTED or PERMISSION_DENIED, is  *)
(* a step of the part that runs before any worker is started; it ends the  *)
(* invocation, leaves the owned reference and every socket as they were,   *)
(* closes nothing and writes nothing.  The step that invokes sendRaw has   *)
(* no such effect either.                                                  *)
(***************************************************************************)
C26_PreCheckRejectionHasNoEffect ==
  [][\A n \in Calls :
       /\ Invoked(n, "connect") /\ ~bluetoothAdapter =>
            Reports(n, "BLUETOOTH_UNAVAILABLE")
       /\ Invoked(n, "connect") /\ bluetoothAdapter /\ ~hasPermission =>
            Reports(n, "PERMISSION_DENIED")
       /\ Invoked(n, "sendRaw") => NoSocketEffect
       /\ Rejected(n) =>
            /\ pc[n] \in {"idle", "s_read2"}
            /\ pc'[n] = "done"
            /\ NoSocketEffect]_vars

\* With a socket owned and open, a sendRaw and then a connect were rejected
\* with PERMISSION_DENIED, and the socket is still owned and open.
C26_Witness ==
  \E c, n, k \in Calls :
    /\ c < n /\ n < k
    /\ op[c] = "connect" /\ settled[c] = <<"OK">>
    /\ op[n] = "sendRaw" /\ settled[n] = <<"PERMISSION_DENIED">>
    /\ op[k] = "connect" /\ settled[k] = <<"PERMISSION_DENIED">>
    /\ mmSocket = c /\ sockState[c] = "open"
    /\ \A i \in Calls : wrote[i] = NoSocket

=============================================================================
